---- MODULE Spec2Model ----
(***************************************************************************)
(* Memory-scramble Board monitor of Lab3/src/board.ts: the grid of Cards,  *)
(* the Player registry and the pending watch() listeners, with the four    *)
(* operations flip, look, map and watch.  JavaScript runs every handler to *)
(* its next await without interleaving, so an action is one such run: a    *)
(* flip up to its return, its throw or its Rule 1-D sleep; one re-check of *)
(* a sleeping flip; a map up to its await of the transforms; the rest of a *)
(* map after the transforms settled.  Each player issues one flip at a     *)
(* time, as the players of simulation.ts do, and one map at a time.        *)
(***************************************************************************)
EXTENDS Integers, Sequences, FiniteSets, TLC

\* ---------------------------------------------------------------- bounds
MaxWatchers == 1      \* pending watch() listeners kept at once
MaxPending == 2       \* the same, where flip and watch run without map

\* -------------------------------------------------- the board under test
Height == 1
Width == 3
\* initial values of the cards, row-major (the board of board.test.ts)
InitialCards == <<"A", "B", "A">>
Values == {"A", "B"}
PlayerIds == {"p1", "p2"}
\* the players that call map, each one map at a time
MapCallers == {"p1"}
\* the players that call watch
WatchCallers == {"p2"}

\* -------------------------------------------------- constants of flip()
POLL_MS == 10
waitTimeoutMs == 0
\* values Date.now() - start can take when a sleeping flip re-checks
Elapsed == {0, POLL_MS}

null == "null"
undefined == "undefined"
NoCard == -1
NoWait == <<>>
NoMap == [values |-> <<>>, valuePositions |-> <<>>]
NoError == "none"

ErrOutOfBounds == "flip: coordinates out of bounds"
ErrNoCard == "No card at specified location"
ErrNoSecondCard == "No card at specified location for second card"
ErrSecondControlled == "Second card is face-up and controlled "
ErrCardGone == "Card no longer on board"
ErrTimeout == "flip failed: timed out waiting for control (1-D)"
ErrMapPlayer == "map: invalid playerId"
ErrWatchPlayer == "watch: invalid playerId"
TransformError(v) == "transform rejected for " \o v
ErrAssertion == "AssertionError"

Rows == 0 .. (Height - 1)
Cols == 0 .. (Width - 1)
CardIds == 0 .. (Height * Width - 1)

VARIABLES grid, cards, players, listeners, waiting, maps

vars == <<grid, cards, players, listeners, waiting, maps>>

\* ------------------------------------------------------------ Card, Player
\* new Card(value, row, col)
Card(value, row, col) ==
    [value |-> value, faceUp |-> FALSE, controller |-> null, removed |-> FALSE,
     row |-> row, col |-> col, prevControlledBy |-> null]

\* new Player(id)
Player(id) ==
    [id |-> id, firstCard |-> NoCard, secondCard |-> NoCard,
     previousFirstCard |-> NoCard, previousSecondCard |-> NoCard]

\* ids that /^\w+$/ does not match: the empty string, an id with a blank,
\* an id with a hyphen
MalformedIds == {"", "p 1", "p-2"}

\* every id an operation is called with
Callers == PlayerIds \cup MalformedIds

\* /^\w+$/.test(playerId): of the ids used here, "p1" and "p2" match
IsWordId(playerId) == playerId \in {"p1", "p2"}

\* The monitor's shared state as one value B, threaded through the
\* statements of a handler; resolved collects the watch() promises the
\* handler resolves, err the error it throws, wait whether it goes to sleep.
Monitor ==
    [grid |-> grid, cards |-> cards, players |-> players, listeners |-> listeners,
     resolved |-> <<>>, err |-> NoError, wait |-> FALSE]

Throw(B, e) == [B EXCEPT !.err = e]

\* this.grid[row]?.[col] === card
OnGrid(B, card) == B.grid[B.cards[card].row][B.cards[card].col] = card

\* ------------------------------------------------------------------- look
\* a line that shows the viewer's own card as anybody's: the fault that C19
\* rules out
lookLineHidesOwner(B, playerId, r, c) ==
    LET card == B.grid[r][c] IN
    IF card = NoCard \/ B.cards[card].removed THEN "none"
    ELSE IF ~B.cards[card].faceUp THEN "down"
    ELSE "up " \o B.cards[card].value

lookLine(B, playerId, r, c) ==
    LET card == B.grid[r][c] IN
    IF card = NoCard \/ B.cards[card].removed THEN "none"
    ELSE IF ~B.cards[card].faceUp THEN "down"
    ELSE IF B.cards[card].controller = playerId THEN "my " \o B.cards[card].value
    ELSE "up " \o B.cards[card].value

RECURSIVE joinLines(_)
joinLines(lines) ==
    IF lines = <<>> THEN "" ELSE (Head(lines) \o "\n") \o joinLines(Tail(lines))

lookLines(B, playerId) ==
    <<ToString(Height) \o "x" \o ToString(Width)>> \o
    [i \in 1 .. (Height * Width) |->
        lookLine(B, playerId, (i - 1) \div Width, (i - 1) % Width)]

look(B, playerId) == joinLines(lookLines(B, playerId))

\* a look that registers its caller as flip does: the fault that C20 rules
\* out
lookCallRegisters(B, playerId) ==
    IF playerId \in DOMAIN B.players THEN B
    ELSE [B EXCEPT !.players =
            [k \in DOMAIN B.players \cup {playerId} |->
                IF k = playerId
                THEN [id |-> playerId, firstCard |-> NoCard, secondCard |-> NoCard,
                      previousFirstCard |-> NoCard, previousSecondCard |-> NoCard]
                ELSE B.players[k]]]

\* the state look leaves: its body reads the grid and the cards, fills a
\* local array, and writes no field of the board (no getOrCreatePlayer, no
\* notifyChange)
lookCall(B, playerId) == B

\* ----------------------------------------------------------- notifyChange
\* a round that resolves every pending watcher and leaves them all on the
\* pending list: the fault that C23 rules out
notifyChangeKeepsPending(B) ==
    IF Len(B.listeners) = 0 THEN B
    ELSE [B EXCEPT
            !.resolved = B.resolved \o
                [i \in 1 .. Len(B.listeners) |->
                    [playerId |-> B.listeners[i],
                     snapshot |-> look(B, B.listeners[i])]]]

\* a round that resolves the oldest watcher and leaves the others pending:
\* the fault that C21 rules out
notifyChangeOldestOnly(B) ==
    IF Len(B.listeners) = 0 THEN B
    ELSE [B EXCEPT
            !.listeners = Tail(B.listeners),
            !.resolved = B.resolved \o
                <<[playerId |-> B.listeners[1],
                   snapshot |-> look(B, B.listeners[1])]>>]

notifyChange(B) ==
    IF Len(B.listeners) = 0 THEN B
    ELSE [B EXCEPT
            !.listeners = <<>>,
            !.resolved = B.resolved \o
                [i \in 1 .. Len(B.listeners) |->
                    [playerId |-> B.listeners[i],
                     snapshot |-> look(B, B.listeners[i])]]]

\* --------------------------------------------------------------- checkRep
\* Card.checkRep
CardCheckRep(card) ==
    /\ card.row >= 0
    /\ card.col >= 0
    /\ (card.removed => card.faceUp = FALSE)

\* Player.checkRep
PlayerCheckRep(B, pl) ==
    /\ pl.id # ""
    /\ \A ref \in {pl.firstCard, pl.secondCard, pl.previousFirstCard, pl.previousSecondCard} :
          ref # NoCard => CardCheckRep(B.cards[ref])

\* the helper checkCardRef of Board.checkRep (its third argument is
\* undefined, or the id the card must be controlled by)
checkCardRef(B, cardRef, mustBeOnBoardAndControlledBy) ==
    \/ cardRef = NoCard
    \/ /\ IF OnGrid(B, cardRef)
          THEN /\ ~B.cards[cardRef].removed
               /\ B.cards[cardRef].row \in Rows
               /\ B.cards[cardRef].col \in Cols
          ELSE B.cards[cardRef].removed = TRUE
       /\ mustBeOnBoardAndControlledBy # undefined =>
             /\ OnGrid(B, cardRef)
             /\ B.cards[cardRef].controller = mustBeOnBoardAndControlledBy

\* the grid loop of Board.checkRep
GridCheckRep(B) ==
    /\ \A r \in Rows, c \in Cols :
          LET cell == B.grid[r][c] IN
          cell # NoCard =>
             /\ B.cards[cell].row = r
             /\ B.cards[cell].col = c
             /\ B.cards[cell].removed = FALSE
             /\ CardCheckRep(B.cards[cell])
    /\ \A r1 \in Rows, c1 \in Cols, r2 \in Rows, c2 \in Cols :
          (B.grid[r1][c1] # NoCard /\ B.grid[r1][c1] = B.grid[r2][c2])
             => (r1 = r2 /\ c1 = c2)

\* the players loop of Board.checkRep
PlayersCheckRep(B) ==
    \A key \in DOMAIN B.players :
       LET pl == B.players[key] IN
       /\ pl.id = key
       /\ checkCardRef(B, pl.firstCard, pl.id)
       /\ checkCardRef(B, pl.secondCard, pl.id)
       /\ checkCardRef(B, pl.previousFirstCard, undefined)
       /\ checkCardRef(B, pl.previousSecondCard, undefined)
       /\ (pl.firstCard # NoCard => B.cards[pl.firstCard].controller = pl.id)
       /\ (pl.secondCard # NoCard => B.cards[pl.secondCard].controller = pl.id)
       /\ PlayerCheckRep(B, pl)

\* the listeners loop of Board.checkRep
ListenersCheckRep(B) ==
    \A i \in 1 .. Len(B.listeners) : IsWordId(B.listeners[i])

\* Board.checkRep: TRUE iff no assertion fails
checkRep(B) == GridCheckRep(B) /\ PlayersCheckRep(B) /\ ListenersCheckRep(B)

\* this.checkRep() as a statement: throws AssertionError when it fails
assertRep(B) == IF checkRep(B) THEN B ELSE Throw(B, ErrAssertion)

\* ------------------------------------------------------ getOrCreatePlayer
\* new Player(playerId) runs Player.checkRep, which throws for the empty id
\* before the registry is written
getOrCreatePlayer(B, playerId) ==
    IF playerId \in DOMAIN B.players THEN B
    ELSE IF ~PlayerCheckRep(B, Player(playerId)) THEN Throw(B, ErrAssertion)
    ELSE [B EXCEPT !.players =
            [k \in DOMAIN B.players \cup {playerId} |->
                IF k = playerId THEN Player(playerId) ELSE B.players[k]]]

\* ------------------------------------------------------------- cardExists
cardExists(B, row, col) ==
    LET card == B.grid[row][col] IN card # NoCard /\ ~B.cards[card].removed

\* ----------------------------------------------------- finishPreviousPlay
\* a removal that marks the card removed and leaves it in its grid slot:
\* the fault that C3 rules out
removeCardKeepsSlot(B, card) ==
    IF ~B.cards[card].removed /\ OnGrid(B, card)
    THEN [B EXCEPT !.cards[card].removed = TRUE]
    ELSE B

\* Rule 3-A, for one card of the pair: unlink it from the grid
removeCard(B, card) ==
    IF ~B.cards[card].removed /\ OnGrid(B, card)
    THEN [B EXCEPT !.grid[B.cards[card].row][B.cards[card].col] = NoCard,
                   !.cards[card].removed = TRUE]
    ELSE B

\* Rule 3-B that gives up the card and leaves it face up: the fault that C39
\* rules out
turnDownLeavesFaceUp(B, playerId, card) ==
    IF card = NoCard \/ B.cards[card].removed THEN B
    ELSE IF ~OnGrid(B, card) THEN B
    ELSE IF B.cards[card].controller = playerId
    THEN [B EXCEPT !.cards[card].controller = null]
    ELSE B

\* Rule 3-B, the body of the loop for one card of the pair
turnDown(B, playerId, card) ==
    IF card = NoCard \/ B.cards[card].removed THEN B
    ELSE IF ~OnGrid(B, card) THEN B
    ELSE
      LET c == B.cards[card]
          B1 == IF /\ c.faceUp
                   /\ (c.controller = null \/ c.controller = playerId)
                   /\ (c.prevControlledBy = playerId \/ c.prevControlledBy = null)
                   /\ c.controller = null
                THEN [B EXCEPT !.cards[card].faceUp = FALSE]
                ELSE B
          B2 == IF B1.cards[card].controller = playerId
                THEN [B1 EXCEPT !.cards[card].controller = null]
                ELSE B1
      IN IF CardCheckRep(B2.cards[card]) THEN B2 ELSE Throw(B2, ErrAssertion)

clearPrevious(B, playerId) ==
    [B EXCEPT !.players[playerId].previousFirstCard = NoCard,
              !.players[playerId].previousSecondCard = NoCard]

finishPreviousPlay(B, playerId) ==
    LET a == B.players[playerId].previousFirstCard
        b == B.players[playerId].previousSecondCard
    IN
    IF a = NoCard /\ b = NoCard THEN B
    ELSE IF a # NoCard /\ b # NoCard /\ B.cards[a].value = B.cards[b].value THEN
      LET B1 == removeCard(removeCard(B, a), b)
          B2 == [B1 EXCEPT !.cards[a].controller = null,
                           !.cards[b].controller = null]
          B3 == assertRep(clearPrevious(B2, playerId))
      IN IF B3.err # NoError THEN B3 ELSE notifyChange(B3)
    ELSE
      LET B1 == turnDown(B, playerId, a)
          B2 == IF B1.err # NoError THEN B1 ELSE turnDown(B1, playerId, b)
          B3 == IF B2.err # NoError THEN B2
                ELSE assertRep(clearPrevious(B2, playerId))
      IN IF B3.err # NoError THEN B3 ELSE notifyChange(B3)

\* ------------------------------------------------------------------- flip
\* a pass through the loop that leaves the loop without an error when the
\* card is gone: the fault that C16 rules out
waitForControlEndsQuietly(B, playerId, row, column, elapsed) ==
    IF ~cardExists(B, row, column) THEN B
    ELSE
      LET targetCard == B.grid[row][column]
          currentCtrl == B.cards[targetCard].controller
      IN
      IF currentCtrl = null THEN
         assertRep([B EXCEPT !.cards[targetCard].faceUp = TRUE,
                             !.cards[targetCard].controller = playerId,
                             !.players[playerId].firstCard = targetCard])
      ELSE IF currentCtrl = playerId THEN
         assertRep([B EXCEPT !.players[playerId].firstCard = targetCard])
      ELSE [notifyChange(B) EXCEPT !.wait = TRUE]

\* a pass through the loop that claims a free card as it lies, face down if
\* it was turned down in the interim: the fault that C34 rules out
waitForControlLeavesFaceDown(B, playerId, row, column, elapsed) ==
    IF waitTimeoutMs # 0 /\ elapsed >= waitTimeoutMs THEN Throw(B, ErrTimeout)
    ELSE IF ~cardExists(B, row, column) THEN Throw(B, ErrCardGone)
    ELSE
      LET targetCard == B.grid[row][column]
          currentCtrl == B.cards[targetCard].controller
      IN
      IF currentCtrl = null THEN
         assertRep([B EXCEPT !.cards[targetCard].controller = playerId,
                             !.players[playerId].firstCard = targetCard])
      ELSE IF currentCtrl = playerId THEN
         assertRep([B EXCEPT !.players[playerId].firstCard = targetCard])
      ELSE [notifyChange(B) EXCEPT !.wait = TRUE]

\* a pass through the loop that takes the card whoever controls it: the
\* fault that C6 rules out
waitForControlSteals(B, playerId, row, column, elapsed) ==
    IF ~cardExists(B, row, column) THEN Throw(B, ErrCardGone)
    ELSE
      LET targetCard == B.grid[row][column]
      IN [B EXCEPT !.cards[targetCard].faceUp = TRUE,
                   !.cards[targetCard].controller = playerId,
                   !.players[playerId].firstCard = targetCard]

\* One pass through the while loop of Rule 1-D; elapsed is Date.now() - start.
\* A pass that finds the card still held calls notifyChange and sleeps.
waitForControl(B, playerId, row, column, elapsed) ==
    IF waitTimeoutMs # 0 /\ elapsed >= waitTimeoutMs THEN Throw(B, ErrTimeout)
    ELSE IF ~cardExists(B, row, column) THEN Throw(B, ErrCardGone)
    ELSE
      LET targetCard == B.grid[row][column]
          currentCtrl == B.cards[targetCard].controller
      IN
      IF currentCtrl = null THEN
         assertRep([B EXCEPT !.cards[targetCard].faceUp = TRUE,
                             !.cards[targetCard].controller = playerId,
                             !.players[playerId].firstCard = targetCard])
      ELSE IF currentCtrl = playerId THEN
         assertRep([B EXCEPT !.players[playerId].firstCard = targetCard])
      ELSE [notifyChange(B) EXCEPT !.wait = TRUE]

\* Rule 1-B: the card is face down
flipFaceDown(B, playerId, card) ==
    IF ~B.cards[card].faceUp
    THEN notifyChange([B EXCEPT !.cards[card].faceUp = TRUE,
                                !.players[playerId].firstCard = card,
                                !.cards[card].controller = playerId])
    ELSE B

\* Rule 1-C: the card is face up and nobody controls it
claimFaceUp(B, playerId, card) ==
    IF B.cards[card].faceUp /\ B.cards[card].controller = null
    THEN notifyChange([B EXCEPT !.players[playerId].firstCard = card,
                                !.cards[card].controller = playerId])
    ELSE B

\* Rule 1: the player holds no first card
flipFirst(B, playerId, row, column) ==
    LET card == B.grid[row][column] IN
    IF card = NoCard \/ ~cardExists(B, row, column) THEN Throw(B, ErrNoCard)
    ELSE
      LET B1 == claimFaceUp(flipFaceDown(B, playerId, card), playerId, card) IN
      IF /\ B1.cards[card].faceUp
         /\ B1.cards[card].controller # playerId
         /\ B1.cards[card].controller # null
      THEN waitForControl(B1, playerId, row, column, 0)
      ELSE assertRep(B1)

\* Rules 2-A and 2-B with the first card still held when the flip fails: the
\* fault that C35 rules out
relinquishFirstKeepsHolding(B, playerId, firstCard) ==
    LET B1 == [B EXCEPT !.players[playerId].previousFirstCard = firstCard,
                        !.players[playerId].previousSecondCard = NoCard]
    IN IF ~B1.cards[firstCard].removed /\ OnGrid(B1, firstCard)
       THEN notifyChange([B1 EXCEPT
                 !.cards[firstCard].controller = null,
                 !.cards[firstCard].prevControlledBy = playerId])
       ELSE B1

\* Rules 2-A and 2-B: give up the first card, keep it as the previous pair
relinquishFirst(B, playerId, firstCard) ==
    LET B1 == [B EXCEPT !.players[playerId].previousFirstCard = firstCard,
                        !.players[playerId].previousSecondCard = NoCard]
        B2 == IF ~B1.cards[firstCard].removed /\ OnGrid(B1, firstCard)
              THEN notifyChange([B1 EXCEPT
                        !.cards[firstCard].controller = null,
                        !.cards[firstCard].prevControlledBy = playerId])
              ELSE B1
    IN [B2 EXCEPT !.players[playerId].firstCard = NoCard]

\* Rule 2-D: the two cards match
keepPair(B, playerId, firstCard, card) ==
    notifyChange([B EXCEPT !.cards[card].controller = playerId,
                           !.cards[firstCard].controller = playerId,
                           !.players[playerId].firstCard = NoCard,
                           !.players[playerId].secondCard = NoCard])

\* Rule 2-E, for one card of the pair
releaseCard(B, playerId, card) ==
    IF ~B.cards[card].removed /\ OnGrid(B, card)
    THEN [B EXCEPT !.cards[card].controller = null,
                   !.cards[card].prevControlledBy = playerId]
    ELSE B

\* Rule 2-E: the two cards differ
releasePair(B, playerId, firstCard, card) ==
    LET B1 == releaseCard(releaseCard(B, playerId, firstCard), playerId, card) IN
    notifyChange([B1 EXCEPT !.players[playerId].firstCard = NoCard,
                            !.players[playerId].secondCard = NoCard])

\* Rule 2: the player holds a first card
flipSecond(B, playerId, row, column) ==
    LET firstCard == B.players[playerId].firstCard
        card == B.grid[row][column]
    IN
    IF card = NoCard \/ ~cardExists(B, row, column)
    THEN Throw(relinquishFirst(B, playerId, firstCard), ErrNoSecondCard)
    ELSE IF B.cards[card].faceUp /\ B.cards[card].controller # null
    THEN Throw(relinquishFirst(B, playerId, firstCard), ErrSecondControlled)
    ELSE
      LET B1 == notifyChange([B EXCEPT !.cards[card].faceUp = TRUE])
          B2 == [B1 EXCEPT !.players[playerId].previousFirstCard = firstCard,
                           !.players[playerId].previousSecondCard = card]
      IN assertRep(IF B2.cards[firstCard].value = B2.cards[card].value
                   THEN keepPair(B2, playerId, firstCard, card)
                   ELSE releasePair(B2, playerId, firstCard, card))

\* a flip that examines the new card with the previous pair still recorded
\* and finalizes afterwards: the fault that C30 rules out
flipExaminesFirst(B, playerId, row, column) ==
    LET B1 == getOrCreatePlayer(B, playerId) IN
    IF B1.err # NoError THEN B1
    ELSE IF row < 0 \/ row >= Height \/ column < 0 \/ column >= Width
    THEN Throw(B1, ErrOutOfBounds)
    ELSE
      LET B2 == IF B1.players[playerId].firstCard = NoCard
                THEN flipFirst(B1, playerId, row, column)
                ELSE IF B1.players[playerId].secondCard = NoCard
                THEN flipSecond(B1, playerId, row, column)
                ELSE assertRep(B1)
      IN IF B2.err # NoError \/ B2.wait THEN B2
         ELSE finishPreviousPlay(B2, playerId)

\* a flip that finalizes the previous pair before it checks the
\* coordinates: the fault that C17 rules out
flipFinishesFirst(B, playerId, row, column) ==
    LET B0 == getOrCreatePlayer(B, playerId)
        B1 == IF B0.err # NoError THEN B0 ELSE finishPreviousPlay(B0, playerId)
    IN
    IF B1.err # NoError THEN B1
    ELSE IF row < 0 \/ row >= Height \/ column < 0 \/ column >= Width
    THEN Throw(B1, ErrOutOfBounds)
    ELSE IF B1.players[playerId].firstCard = NoCard
    THEN flipFirst(B1, playerId, row, column)
    ELSE IF B1.players[playerId].secondCard = NoCard
    THEN flipSecond(B1, playerId, row, column)
    ELSE assertRep(B1)

\* flip(playerId, row, column) up to its return, throw or first sleep
flip(B, playerId, row, column) ==
    LET B1 == getOrCreatePlayer(B, playerId) IN
    IF B1.err # NoError THEN B1
    ELSE IF row < 0 \/ row >= Height \/ column < 0 \/ column >= Width
    THEN Throw(B1, ErrOutOfBounds)
    ELSE
      LET B2 == finishPreviousPlay(B1, playerId) IN
      IF B2.err # NoError THEN B2
      ELSE IF B2.players[playerId].firstCard = NoCard
      THEN flipFirst(B2, playerId, row, column)
      ELSE IF B2.players[playerId].secondCard = NoCard
      THEN flipSecond(B2, playerId, row, column)
      ELSE assertRep(B2)

\* -------------------------------------------------------------------- map
\* the cells in row-major order, as the two nested loops of map visit them
CellSeq == [i \in 1 .. (Height * Width) |-> <<(i - 1) \div Width, (i - 1) % Width>>]

IsLive(B, pos) ==
    LET card == B.grid[pos[1]][pos[2]] IN card # NoCard /\ ~B.cards[card].removed

\* one entry for every live cell among the first n, its value repeated for
\* every cell that holds it: the fault that C28 rules out
RECURSIVE snapshotValuesPerCell(_, _)
snapshotValuesPerCell(B, n) ==
    IF n = 0 THEN <<>>
    ELSE LET before == snapshotValuesPerCell(B, n - 1)
             pos == CellSeq[n]
         IN IF ~IsLive(B, pos) THEN before
            ELSE Append(before, B.cards[B.grid[pos[1]][pos[2]]].value)

\* Array.from(valuePositions.keys()): the distinct values of the live cards
\* among the first n cells, in order of first occurrence
RECURSIVE snapshotValues(_, _)
snapshotValues(B, n) ==
    IF n = 0 THEN <<>>
    ELSE LET before == snapshotValues(B, n - 1)
             pos == CellSeq[n]
         IN IF ~IsLive(B, pos) THEN before
            ELSE LET v == B.cards[B.grid[pos[1]][pos[2]]].value IN
                 IF \E i \in 1 .. Len(before) : before[i] = v
                 THEN before ELSE Append(before, v)

\* valuePositions.get(v): the live cells holding v
snapshotPositions(B, v) ==
    {pos \in Rows \X Cols :
        IsLive(B, pos) /\ B.cards[B.grid[pos[1]][pos[2]]].value = v}

\* the snapshot map() takes before it awaits the transforms
mapSnapshot(B) ==
    LET values == snapshotValues(B, Height * Width) IN
    [values |-> values,
     valuePositions |-> [i \in 1 .. Len(values) |-> snapshotPositions(B, values[i])]]

\* outcome of the transform for one value: a new value, or rejected
rejected == "rejected"

\* the value of one card after the first n replacements, each applied to
\* whatever the card holds by then: a replacement chained onto the result
\* of an earlier one, the fault that C25 rules out
RECURSIVE chainedValue(_, _, _, _, _)
chainedValue(B, m, settled, card, n) ==
    IF n = 0 THEN B.cards[card].value
    ELSE LET before == chainedValue(B, m, settled, card, n - 1)
             c == B.cards[card]
         IN IF /\ settled[n] # rejected
               /\ B.grid[c.row][c.col] = card
               /\ ~c.removed
               /\ before = m.values[n]
            THEN settled[n] ELSE before

mappedValueChained(B, m, settled, card) ==
    chainedValue(B, m, settled, card, Len(m.values))

\* replacements that reach every card recorded in the snapshot, also the
\* cards removed since: the fault that C26 rules out
mappedValueOfRemoved(B, m, settled, card) ==
    LET c == B.cards[card]
        hits == {i \in 1 .. Len(m.values) :
                    /\ settled[i] # rejected
                    /\ <<c.row, c.col>> \in m.valuePositions[i]
                    /\ c.value = m.values[i]}
    IN IF hits = {} THEN c.value ELSE settled[CHOOSE i \in hits : TRUE]

\* the new value of one card when the replacements of snapshot m are applied
\* with the outcomes settled (one per value of m.values)
mappedValue(B, m, settled, card) ==
    LET c == B.cards[card]
        hits == {i \in 1 .. Len(m.values) :
                    /\ settled[i] # rejected
                    /\ <<c.row, c.col>> \in m.valuePositions[i]
                    /\ B.grid[c.row][c.col] = card
                    /\ ~c.removed
                    /\ c.value = m.values[i]}
    IN IF hits = {} THEN c.value ELSE settled[CHOOSE i \in hits : TRUE]

\* the loop that applies the fulfilled replacements
applyReplacements(B, m, settled) ==
    [B EXCEPT !.cards = [card \in DOMAIN B.cards |->
                            [B.cards[card] EXCEPT !.value = mappedValue(B, m, settled, card)]]]

\* a map that, when a transform was rejected, throws with the board as it
\* found it, the fulfilled replacements undone: the fault that C27 rules out
mapFinishRollsBack(B, m, settled) ==
    LET B1 == applyReplacements(B, m, settled) IN
    IF \E i \in 1 .. Len(settled) : settled[i] = rejected
    THEN LET first == CHOOSE i \in 1 .. Len(settled) :
                          /\ settled[i] = rejected
                          /\ \A j \in 1 .. (i - 1) : settled[j] # rejected
         IN Throw(B, TransformError(m.values[first]))
    ELSE LET B2 == assertRep(B1) IN
         IF B2.err # NoError THEN B2 ELSE notifyChange(B2)

\* map() after the transforms have settled
mapFinish(B, m, settled) ==
    LET B1 == applyReplacements(B, m, settled) IN
    IF \E i \in 1 .. Len(settled) : settled[i] = rejected
    THEN LET first == CHOOSE i \in 1 .. Len(settled) :
                          /\ settled[i] = rejected
                          /\ \A j \in 1 .. (i - 1) : settled[j] # rejected
         IN Throw(B1, TransformError(m.values[first]))
    ELSE LET B2 == assertRep(B1) IN
         IF B2.err # NoError THEN B2 ELSE notifyChange(B2)

\* ------------------------------------------------------------------ state
\* the grid the constructor builds: card i at row (i \div Width), column
\* (i % Width), face down, uncontrolled
Init ==
    /\ grid = [r \in Rows |-> [c \in Cols |-> r * Width + c]]
    /\ cards = [i \in CardIds |-> Card(InitialCards[i + 1], i \div Width, i % Width)]
    /\ players = <<>>
    /\ listeners = <<>>
    /\ waiting = [p \in PlayerIds |-> NoWait]
    /\ maps = [p \in MapCallers |-> NoMap]

\* the targets flip is called with: every cell, and one target beyond each
\* edge of the grid
FlipTargets ==
    (Rows \X Cols) \cup {<<-1, 0>>, <<Height, 0>>, <<0, -1>>, <<0, Width>>}

\* what a handler leaves behind
Commit(B) ==
    /\ grid' = B.grid
    /\ cards' = B.cards
    /\ players' = B.players
    /\ listeners' = B.listeners

\* ---------------------------------------------------------------- actions
\* a player calls flip; the call returns, throws, or goes to sleep in 1-D
Flip(playerId, row, column) ==
    /\ waiting[playerId] = NoWait
    /\ LET B == flip(Monitor, playerId, row, column) IN
       /\ Commit(B)
       /\ waiting' = IF B.wait
                     THEN [waiting EXCEPT ![playerId] = <<row, column>>]
                     ELSE waiting
    /\ UNCHANGED maps

\* a sleeping flip wakes after POLL_MS and goes through the loop once more
Recheck(playerId) ==
    /\ waiting[playerId] # NoWait
    /\ \E elapsed \in Elapsed :
         LET B == waitForControl(Monitor, playerId, waiting[playerId][1],
                                 waiting[playerId][2], elapsed)
         IN /\ Commit(B)
            /\ waiting' = IF B.wait THEN waiting
                          ELSE [waiting EXCEPT ![playerId] = NoWait]
    /\ UNCHANGED maps

\* look(playerId): returns look(Monitor, playerId)
Look(playerId) ==
    /\ playerId \in Callers
    /\ Commit(lookCall(Monitor, playerId))
    /\ UNCHANGED <<waiting, maps>>

\* watch(playerId)
Watch(playerId) ==
    /\ listeners' = IF ~IsWordId(playerId) THEN listeners
                    ELSE Append(listeners, playerId)
    /\ UNCHANGED <<grid, cards, players, waiting, maps>>

\* map(playerId, f) up to its await of the transforms; on a board with no
\* live card it returns look(Monitor, playerId) at once
MapStart(playerId) ==
    /\ maps[playerId] = NoMap
    /\ maps' = IF ~IsWordId(playerId) THEN maps
               ELSE [maps EXCEPT ![playerId] = mapSnapshot(Monitor)]
    /\ UNCHANGED <<grid, cards, players, listeners, waiting>>

\* the transforms of playerId's map settle with the outcomes settled, each a
\* value or a rejection, and the map goes on to its throw or its return of
\* look(Monitor', playerId)
MapSettles(playerId, settled) ==
    /\ maps[playerId] # NoMap
    /\ Commit(mapFinish(Monitor, maps[playerId], settled))
    /\ maps' = [maps EXCEPT ![playerId] = NoMap]
    /\ UNCHANGED waiting

\* map(playerId, f) from its await on, for every way f can settle
MapFinish(playerId) ==
    \E settled \in [1 .. Len(maps[playerId].values) -> Values \cup {rejected}] :
       MapSettles(playerId, settled)

\* flip alone
FlipNext ==
    \/ \E playerId \in PlayerIds, target \in FlipTargets :
          Flip(playerId, target[1], target[2])
    \/ \E playerId \in PlayerIds : Recheck(playerId)

\* flip, look and map
PlayNext ==
    \/ \E playerId \in PlayerIds, target \in FlipTargets :
          Flip(playerId, target[1], target[2])
    \/ \E playerId \in PlayerIds : Recheck(playerId)
    \/ \E playerId \in PlayerIds : Look(playerId)
    \/ \E playerId \in MapCallers : MapStart(playerId)
    \/ \E playerId \in MapCallers : MapFinish(playerId)

\* all four operations
Next ==
    \/ \E playerId \in PlayerIds, target \in FlipTargets :
          Flip(playerId, target[1], target[2])
    \/ \E playerId \in PlayerIds : Recheck(playerId)
    \/ \E playerId \in PlayerIds : Look(playerId)
    \/ \E playerId \in WatchCallers :
          Len(listeners) < MaxWatchers /\ Watch(playerId)
    \/ \E playerId \in MapCallers : MapStart(playerId)
    \/ \E playerId \in MapCallers : MapFinish(playerId)

\* flip and watch, both players watching, several watchers pending at once
WatchNext ==
    \/ \E playerId \in PlayerIds, target \in FlipTargets :
          Flip(playerId, target[1], target[2])
    \/ \E playerId \in PlayerIds : Recheck(playerId)
    \/ \E playerId \in PlayerIds :
          Len(listeners) < MaxPending /\ Watch(playerId)

Spec == Init /\ [][Next]_vars

WatchSpec == Init /\ [][WatchNext]_vars

PlaySpec == Init /\ [][PlayNext]_vars

\* setTimeout wakes every sleeping flip: its re-check is not put off forever
FairSpec ==
    /\ Init
    /\ [][FlipNext]_vars
    /\ \A playerId \in PlayerIds : WF_vars(Recheck(playerId))

\* a third player
ThreePlayers == PlayerIds \cup {"p3"}

\* the same board with three players flipping
ThreeInit ==
    /\ grid = [r \in Rows |-> [c \in Cols |-> r * Width + c]]
    /\ cards = [i \in CardIds |-> Card(InitialCards[i + 1], i \div Width, i % Width)]
    /\ players = <<>>
    /\ listeners = <<>>
    /\ waiting = [p \in ThreePlayers |-> NoWait]
    /\ maps = [p \in MapCallers |-> NoMap]

\* the cells the third player asks for
ThirdTargets == {<<0, 1>>, <<0, 2>>}

\* in-bounds flips of three players
ThreeNext ==
    \/ \E playerId \in PlayerIds, target \in Rows \X Cols :
          Flip(playerId, target[1], target[2])
    \/ \E target \in ThirdTargets : Flip("p3", target[1], target[2])
    \/ \E playerId \in ThreePlayers : Recheck(playerId)

ThreeSpec ==
    /\ ThreeInit
    /\ [][ThreeNext]_vars
    /\ \A playerId \in ThreePlayers : WF_vars(Recheck(playerId))

\* the same board, called under malformed ids
IdInit ==
    /\ grid = [r \in Rows |-> [c \in Cols |-> r * Width + c]]
    /\ cards = [i \in CardIds |-> Card(InitialCards[i + 1], i \div Width, i % Width)]
    /\ players = <<>>
    /\ listeners = <<>>
    /\ waiting = [p \in Callers |-> NoWait]
    /\ maps = [p \in Callers |-> NoMap]

\* the four operations under malformed ids; map never gets to its await
IdNext ==
    \/ \E playerId \in MalformedIds, target \in FlipTargets :
          Flip(playerId, target[1], target[2])
    \/ \E playerId \in MalformedIds : Recheck(playerId)
    \/ \E playerId \in MalformedIds : Look(playerId)
    \/ \E playerId \in MalformedIds :
          Len(listeners) < MaxWatchers /\ Watch(playerId)
    \/ \E playerId \in MalformedIds : MapStart(playerId)

IdSpec == IdInit /\ [][IdNext]_vars

\* the same board with both players calling map
MapInit ==
    /\ grid = [r \in Rows |-> [c \in Cols |-> r * Width + c]]
    /\ cards = [i \in CardIds |-> Card(InitialCards[i + 1], i \div Width, i % Width)]
    /\ players = <<>>
    /\ listeners = <<>>
    /\ waiting = [p \in PlayerIds |-> NoWait]
    /\ maps = [p \in PlayerIds |-> NoMap]

\* maps of the two players overlapping each other and the flips of one
\* player, who matches and removes cards while the maps await
MapNext ==
    \/ \E playerId \in MapCallers, target \in Rows \X Cols :
          Flip(playerId, target[1], target[2])
    \/ \E playerId \in PlayerIds : MapStart(playerId)
    \/ \E playerId \in PlayerIds : MapFinish(playerId)

MapSpec == MapInit /\ [][MapNext]_vars

\* ------------------------------------------------------------- properties
\* the state a flip by playerId finds once its previous pair is finalized
AfterFinish(playerId) == finishPreviousPlay(getOrCreatePlayer(Monitor, playerId), playerId)

\* C1: every removed card is absent from the grid and is not face up.
C1_RemovedCardFaceDownOffGrid ==
    \A card \in CardIds :
       cards[card].removed => (~OnGrid(Monitor, card) /\ ~cards[card].faceUp)

\* C2: a player's current first card, if set, is on the grid and is
\* controlled by exactly that player.
C2_FirstCardControlledByHolder ==
    \A playerId \in DOMAIN players :
       LET first == players[playerId].firstCard IN
       first # NoCard =>
          (OnGrid(Monitor, first) /\ cards[first].controller = playerId)

\* C3: the card in grid cell (r, c) is not removed and has row r and
\* column c, and no card is in two cells.
C3_GridCellsConsistent ==
    /\ \A r \in Rows, c \in Cols :
          grid[r][c] # NoCard =>
             /\ cards[grid[r][c]].removed = FALSE
             /\ cards[grid[r][c]].row = r
             /\ cards[grid[r][c]].col = c
    /\ \A pos1 \in Rows \X Cols, pos2 \in Rows \X Cols :
          (grid[pos1[1]][pos1[2]] # NoCard /\ pos1 # pos2)
             => grid[pos1[1]][pos1[2]] # grid[pos2[1]][pos2[2]]

\* a pair has been removed from the grid while another card is still on it
C3_Witness ==
    /\ \E pos \in Rows \X Cols : grid[pos[1]][pos[2]] = NoCard
    /\ \E pos \in Rows \X Cols : grid[pos[1]][pos[2]] # NoCard

\* C4: a card that has a controller is on the grid and face up.
C4_ControlledCardOnGridFaceUp ==
    \A card \in CardIds :
       cards[card].controller # null => (OnGrid(Monitor, card) /\ cards[card].faceUp)

\* C5: the representation invariant holds in every state, and no flip,
\* re-check or map that can be made fails one of its assertions.
C5_NoAssertionFails ==
    /\ checkRep(Monitor)
    /\ \A playerId \in PlayerIds, target \in FlipTargets :
          waiting[playerId] = NoWait =>
             flip(Monitor, playerId, target[1], target[2]).err # ErrAssertion
    /\ \A playerId \in PlayerIds, elapsed \in Elapsed :
          waiting[playerId] # NoWait =>
             waitForControl(Monitor, playerId, waiting[playerId][1],
                            waiting[playerId][2], elapsed).err # ErrAssertion
    /\ \A playerId \in MapCallers :
          \A settled \in [1 .. Len(maps[playerId].values) -> Values \cup {rejected}] :
             maps[playerId] # NoMap =>
                mapFinish(Monitor, maps[playerId], settled).err # ErrAssertion

\* the live card at (row, column) of B is face up and controlled by a
\* player other than playerId (finishPreviousPlay never gives a card to
\* another player, so a card held by another after it was held before it)
HeldByAnother(B, playerId, row, column) ==
    /\ cardExists(B, row, column)
    /\ B.cards[B.grid[row][column]].faceUp
    /\ B.cards[B.grid[row][column]].controller \notin {null, playerId}

SecondCardFlip(playerId, row, column) ==
    /\ playerId \in DOMAIN players
    /\ players[playerId].firstCard # NoCard
    /\ cardExists(Monitor, row, column)
    /\ \/ ~cards[grid[row][column]].faceUp
       \/ cards[grid[row][column]].controller = null

\* C8: a second card that matches the first leaves both cards on the grid,
\* face up, controlled by the player, who then holds no first card and has
\* the two cards as previous pair.
C8_MatchKeepsBothCards ==
    [][\A playerId \in PlayerIds, target \in Rows \X Cols :
         LET first == players[playerId].firstCard
             card == grid[target[1]][target[2]]
         IN
         ( /\ SecondCardFlip(playerId, target[1], target[2])
           /\ cards[first].value = cards[card].value
           /\ Flip(playerId, target[1], target[2]) )
         => /\ grid'[cards[first].row][cards[first].col] = first
            /\ grid'[target[1]][target[2]] = card
            /\ cards'[first].faceUp /\ cards'[card].faceUp
            /\ cards'[first].controller = playerId
            /\ cards'[card].controller = playerId
            /\ players'[playerId].firstCard = NoCard
            /\ players'[playerId].previousFirstCard = first
            /\ players'[playerId].previousSecondCard = card]_vars

\* the player's previous pair is a matched pair: both cards set and
\* controlled by the player
HoldsMatchedPair(playerId) ==
    /\ playerId \in DOMAIN players
    /\ players[playerId].previousFirstCard # NoCard
    /\ players[playerId].previousSecondCard # NoCard
    /\ cards[players[playerId].previousFirstCard].controller = playerId
    /\ cards[players[playerId].previousSecondCard].controller = playerId

\* C9: the next in-bounds flip of a player whose previous pair is a matched
\* pair removes both cards: their grid slots are empty, look shows none
\* there, neither card has a controller, and the player's previous pair is
\* cleared.
C9_NextFlipRemovesMatchedPair ==
    [][\A playerId \in PlayerIds, target \in Rows \X Cols :
         ( /\ HoldsMatchedPair(playerId)
           /\ Flip(playerId, target[1], target[2]) )
         => \A card \in {players[playerId].previousFirstCard,
                          players[playerId].previousSecondCard} :
               /\ grid'[cards[card].row][cards[card].col] = NoCard
               /\ cards'[card].removed
               /\ cards'[card].controller = null
               /\ \A viewer \in PlayerIds :
                     lookLine([grid |-> grid', cards |-> cards'], viewer,
                              cards[card].row, cards[card].col) = "none"
               /\ players'[playerId].previousFirstCard = NoCard
               /\ players'[playerId].previousSecondCard = NoCard]_vars

\* C10: a second card that differs from the first leaves both cards on the
\* grid, face up, with no controller and prevControlledBy the player, who
\* then holds no first card.
C10_MismatchReleasesBothCards ==
    [][\A playerId \in PlayerIds, target \in Rows \X Cols :
         LET first == players[playerId].firstCard
             card == grid[target[1]][target[2]]
         IN
         ( /\ SecondCardFlip(playerId, target[1], target[2])
           /\ cards[first].value # cards[card].value
           /\ Flip(playerId, target[1], target[2]) )
         => /\ grid'[cards[first].row][cards[first].col] = first
            /\ grid'[target[1]][target[2]] = card
            /\ cards'[first].faceUp /\ cards'[card].faceUp
            /\ cards'[first].controller = null
            /\ cards'[card].controller = null
            /\ cards'[first].prevControlledBy = playerId
            /\ cards'[card].prevControlledBy = playerId
            /\ players'[playerId].firstCard = NoCard]_vars

\* the player's previous pair is a pair it gave up for not matching and no
\* other player has claimed since: both cards live, face up, uncontrolled,
\* last controlled by the player
HoldsReleasedPair(playerId) ==
    /\ playerId \in DOMAIN players
    /\ players[playerId].previousFirstCard # NoCard
    /\ players[playerId].previousSecondCard # NoCard
    /\ \A card \in {players[playerId].previousFirstCard,
                    players[playerId].previousSecondCard} :
          /\ ~cards[card].removed
          /\ grid[cards[card].row][cards[card].col] = card
          /\ cards[card].faceUp
          /\ cards[card].controller = null
          /\ cards[card].prevControlledBy = playerId

\* C11: the next in-bounds flip of a player whose previous pair did not
\* match and was left alone by the others turns both cards face down (still
\* on the grid, uncontrolled), except a card the flip itself targets, and
\* clears the player's previous pair.
C11_NextFlipTurnsDownReleasedPair ==
    [][\A playerId \in PlayerIds, target \in Rows \X Cols :
         ( /\ HoldsReleasedPair(playerId)
           /\ Flip(playerId, target[1], target[2]) )
         => /\ \A card \in {players[playerId].previousFirstCard,
                            players[playerId].previousSecondCard} :
                  grid[target[1]][target[2]] # card
                  => /\ grid'[cards[card].row][cards[card].col] = card
                     /\ ~cards'[card].removed
                     /\ ~cards'[card].faceUp
                     /\ cards'[card].controller = null
            /\ players'[playerId].previousFirstCard = NoCard
            /\ players'[playerId].previousSecondCard = NoCard]_vars

\* finishPreviousPlay takes Rule 3-B for the player's previous pair: a card
\* is recorded, and the pair is not two cards of equal value
HoldsUnmatchedPrevious(playerId) ==
    /\ playerId \in DOMAIN players
    /\ \/ players[playerId].previousFirstCard # NoCard
       \/ players[playerId].previousSecondCard # NoCard
    /\ ~ ( /\ players[playerId].previousFirstCard # NoCard
           /\ players[playerId].previousSecondCard # NoCard
           /\ cards[players[playerId].previousFirstCard].value
                 = cards[players[playerId].previousSecondCard].value )

\* the card is live and face up, and another player than playerId controls
\* it or was the last to give it up
TakenByAnother(playerId, card) ==
    /\ card # NoCard
    /\ ~cards[card].removed
    /\ grid[cards[card].row][cards[card].col] = card
    /\ cards[card].faceUp
    /\ \/ cards[card].controller \notin {null, playerId}
       \/ cards[card].prevControlledBy \notin {null, playerId}

\* C12: when a flip finalizes the player's non-matching previous pair, a
\* card of the pair that another player controls, or has claimed and given
\* up since, stays on the grid face up with the controller it had (the flip
\* targets another cell, so that only the finalization acts on the card).
C12_FinalizeSparesCardsOfOthers ==
    [][\A playerId \in PlayerIds, target \in Rows \X Cols :
         \A card \in {players[p].previousFirstCard : p \in DOMAIN players \cap {playerId}}
                \cup {players[p].previousSecondCard : p \in DOMAIN players \cap {playerId}} :
            ( /\ HoldsUnmatchedPrevious(playerId)
              /\ TakenByAnother(playerId, card)
              /\ grid[target[1]][target[2]] # card
              /\ Flip(playerId, target[1], target[2]) )
            => /\ cards'[card].faceUp
               /\ ~cards'[card].removed
               /\ grid'[cards[card].row][cards[card].col] = card
               /\ cards'[card].controller = cards[card].controller]_vars

\* the second card of a flip by playerId at (row, column) is refused: the
\* player holds a first card, and the target is no live card (Rule 2-A) or
\* a face-up card that somebody controls (Rule 2-B)
SecondCardRefused(playerId, row, column) ==
    /\ playerId \in DOMAIN players
    /\ players[playerId].firstCard # NoCard
    /\ \/ ~cardExists(Monitor, row, column)
       \/ /\ cards[grid[row][column]].faceUp
          /\ cards[grid[row][column]].controller # null

\* C13: a second-card flip on an empty location or on a controlled face-up
\* card fails with the error of Rule 2-A or 2-B and keeps its side effect:
\* the first card is on the grid, face up, uncontrolled, prevControlledBy
\* the player; the player holds no first card, and its previous pair is
\* (first card, none).
C13_RefusedSecondCardGivesUpFirst ==
    [][\A playerId \in PlayerIds, target \in Rows \X Cols :
         LET first == players[playerId].firstCard IN
         ( /\ SecondCardRefused(playerId, target[1], target[2])
           /\ Flip(playerId, target[1], target[2]) )
         => /\ flip(Monitor, playerId, target[1], target[2]).err
                  = IF cardExists(Monitor, target[1], target[2])
                    THEN ErrSecondControlled ELSE ErrNoSecondCard
            /\ grid'[cards[first].row][cards[first].col] = first
            /\ ~cards'[first].removed
            /\ cards'[first].faceUp
            /\ cards'[first].controller = null
            /\ cards'[first].prevControlledBy = playerId
            /\ players'[playerId].firstCard = NoCard
            /\ players'[playerId].previousFirstCard = first
            /\ players'[playerId].previousSecondCard = NoCard]_vars

\* in state B the player holds no first card and (row, column) holds a live
\* card that is face down (Rule 1-B) or face up and uncontrolled (Rule 1-C)
FirstCardFree(B, playerId, row, column) ==
    /\ B.err = NoError
    /\ B.players[playerId].firstCard = NoCard
    /\ cardExists(B, row, column)
    /\ \/ ~B.cards[B.grid[row][column]].faceUp
       \/ B.cards[B.grid[row][column]].controller = null

\* C14: a first-card flip on a live card that is face down, or face up and
\* uncontrolled, succeeds; the card is then face up, controlled by the
\* player and the player's first card, and the step changes no other card
\* (compared with the state the finalization of the previous pair left).
C14_FirstCardFlipTakesCard ==
    [][\A playerId \in PlayerIds, target \in Rows \X Cols :
         LET B == AfterFinish(playerId)
             card == B.grid[target[1]][target[2]]
         IN
         ( /\ waiting[playerId] = NoWait
           /\ FirstCardFree(B, playerId, target[1], target[2])
           /\ Flip(playerId, target[1], target[2]) )
         => /\ flip(Monitor, playerId, target[1], target[2]).err = NoError
            /\ cards'[card].faceUp
            /\ cards'[card].controller = playerId
            /\ players'[playerId].firstCard = card
            /\ grid' = B.grid
            /\ \A other \in CardIds \ {card} : cards'[other] = B.cards[other]
            /\ cards'[card].value = B.cards[card].value]_vars

\* playerId holds no first card (or is not registered yet) and (row, column)
\* holds no live card
NoCardToFlip(playerId, row, column) ==
    /\ playerId \in DOMAIN players => players[playerId].firstCard = NoCard
    /\ ~cardExists(Monitor, row, column)

\* C15: a first-card flip on a location without a live card fails with the
\* error of Rule 1-A; the first-card step changes no card (compared with the
\* state the finalization of the previous pair left), and the player still
\* holds no first card.
C15_FirstCardOnEmptyLocationFails ==
    [][\A playerId \in PlayerIds, target \in Rows \X Cols :
         ( /\ waiting[playerId] = NoWait
           /\ NoCardToFlip(playerId, target[1], target[2])
           /\ Flip(playerId, target[1], target[2]) )
         => /\ flip(Monitor, playerId, target[1], target[2]).err = ErrNoCard
            /\ cards' = AfterFinish(playerId).cards
            /\ grid' = AfterFinish(playerId).grid
            /\ players'[playerId].firstCard = NoCard]_vars

\* playerId's flip sleeps in Rule 1-D and the card it waits for is gone
WaitsForRemovedCard(playerId) ==
    /\ waiting[playerId] # NoWait
    /\ ~cardExists(Monitor, waiting[playerId][1], waiting[playerId][2])

OutOfBounds == FlipTargets \ (Rows \X Cols)

\* C17: a flip outside the grid fails with the out-of-bounds error and
\* changes nothing: the grid, the cards, every registered player's card
\* references (the caller's previous pair is not finalized) and the pending
\* watchers stay as they were; a caller not registered yet gets an entry
\* with no cards.
C17_OutOfBoundsFlipChangesNothing ==
    [][\A playerId \in PlayerIds, target \in OutOfBounds :
         ( /\ waiting[playerId] = NoWait
           /\ Flip(playerId, target[1], target[2]) )
         => /\ flip(Monitor, playerId, target[1], target[2]).err = ErrOutOfBounds
            /\ grid' = grid
            /\ cards' = cards
            /\ listeners' = listeners
            /\ flip(Monitor, playerId, target[1], target[2]).resolved = <<>>
            /\ \A p \in DOMAIN players : players'[p] = players[p]
            /\ playerId \notin DOMAIN players => players'[playerId] = Player(playerId)
            /\ DOMAIN players' = DOMAIN players \cup {playerId}]_vars

\* a player registered by an out-of-bounds flip on the untouched board, a
\* watcher still pending
C17_Witness ==
    /\ players # <<>>
    /\ \A card \in CardIds : ~cards[card].faceUp /\ cards[card].controller = null
    /\ \A p \in DOMAIN players : players[p] = Player(p)
    /\ Len(listeners) > 0

\* the errors thrown for a malformed player id
InvalidArgument == {ErrMapPlayer, ErrWatchPlayer}

\* C18: a call under a malformed player id is rejected and changes nothing:
\* flip fails with an invalid-argument error and leaves the grid, the
\* cards, the player registry and the watchers alone; look returns an
\* invalid-argument error, not a snapshot; watch registers no watcher; map
\* takes no snapshot.
C18_MalformedIdRejected ==
    [][\A playerId \in MalformedIds :
         /\ \A target \in FlipTargets :
               Flip(playerId, target[1], target[2])
               => /\ flip(Monitor, playerId, target[1], target[2]).err \in InvalidArgument
                  /\ UNCHANGED <<grid, cards, players, listeners>>
         /\ Look(playerId) => look(Monitor, playerId) \in InvalidArgument
         /\ Watch(playerId) => listeners' = listeners
         /\ MapStart(playerId) => maps' = maps]_vars

\* the line the snapshot for viewer must show for cell i, counted in
\* row-major order from 0
ExpectedLine(viewer, i) ==
    LET card == grid[i \div Width][i % Width] IN
    CASE card = NoCard -> "none"
      [] card # NoCard /\ cards[card].removed -> "none"
      [] card # NoCard /\ ~cards[card].removed /\ ~cards[card].faceUp -> "down"
      [] card # NoCard /\ ~cards[card].removed /\ cards[card].faceUp
            /\ cards[card].controller = viewer -> "my " \o cards[card].value
      [] card # NoCard /\ ~cards[card].removed /\ cards[card].faceUp
            /\ cards[card].controller # viewer -> "up " \o cards[card].value

C20_LookChangesNothing ==
    [][\A viewer \in PlayerIds :
         Look(viewer)
         => /\ UNCHANGED <<grid, cards, players, listeners, waiting, maps>>
            /\ DOMAIN players' = DOMAIN players
            /\ look([grid |-> grid', cards |-> cards'], viewer)
                  = look(Monitor, viewer)]_vars

\* a state in which look is called under an id the registry does not hold,
\* with a card face up and a watcher pending
C20_Witness ==
    /\ \E viewer \in PlayerIds : viewer \notin DOMAIN players
    /\ \E card \in CardIds : cards[card].faceUp
    /\ Len(listeners) > 0

\* the ids of the watchers a handler resolved, in the order of resolution
ResolvedIds(B) == [i \in 1 .. Len(B.resolved) |-> B.resolved[i].playerId]

\* C21: one notification round resolves every watcher pending at that
\* moment: a step that takes any watcher off the pending list empties the
\* list, and a flip or a re-check that resolves a watcher resolves exactly
\* the watchers that were pending before it, none of which stays pending.
C21_RoundResolvesAllPending ==
    [][/\ ( /\ listeners' # listeners
            /\ \A playerId \in PlayerIds : listeners' # Append(listeners, playerId) )
          => listeners' = <<>>
       /\ \A playerId \in PlayerIds, target \in FlipTargets :
             LET B == flip(Monitor, playerId, target[1], target[2]) IN
             ( /\ listeners # <<>>
               /\ waiting[playerId] = NoWait
               /\ \A other \in DOMAIN players \ {playerId} :
                     players'[other] = players[other]
               /\ Flip(playerId, target[1], target[2])
               /\ B.resolved # <<>> )
             => /\ listeners' = <<>>
                /\ ResolvedIds(B) = listeners
       /\ \A playerId \in PlayerIds, elapsed \in Elapsed :
             LET B == waitForControl(Monitor, playerId, waiting[playerId][1],
                                     waiting[playerId][2], elapsed)
             IN
             ( /\ listeners # <<>>
               /\ waiting[playerId] # NoWait
               /\ B.resolved # <<>>
               /\ Recheck(playerId) )
             => /\ listeners' = <<>>
                /\ ResolvedIds(B) = listeners]_vars

\* two watchers are pending and a flip is about to resolve them
C21_Witness ==
    /\ Len(listeners) = 2
    /\ \E playerId \in PlayerIds, target \in Rows \X Cols :
          /\ waiting[playerId] = NoWait
          /\ Len(flip(Monitor, playerId, target[1], target[2]).resolved) = 2

\* the board state a watcher waits on: which card lies in each cell, and each
\* card's value, face, controller and removal
BoardState(g, cs) ==
    <<g, [card \in DOMAIN cs |->
             <<cs[card].value, cs[card].faceUp, cs[card].controller,
               cs[card].removed>>]>>

\* C22: a watch does not resolve when nothing changes: a step that resolves
\* a pending watcher changes the grid or some card's value, face,
\* controller or removal.
C22_WatchResolvesOnlyOnChange ==
    [][Len(listeners') < Len(listeners)
         => BoardState(grid', cards') # BoardState(grid, cards)]_vars

\* C23: each watch handle resolves exactly once: over a flip or a re-check,
\* however many notification rounds it runs, every watcher pending before it
\* is afterwards either resolved once or still pending, never both and never
\* resolved twice; and a watch registered after a round is pending when
\* watch returns, to be resolved by a later round only.
C23_WatcherResolvedOnce ==
    [][/\ \A playerId \in PlayerIds, target \in FlipTargets :
             LET B == flip(Monitor, playerId, target[1], target[2]) IN
             ( /\ listeners # <<>>
               /\ waiting[playerId] = NoWait
               /\ \A other \in DOMAIN players \ {playerId} :
                     players'[other] = players[other]
               /\ Flip(playerId, target[1], target[2]) )
             => Len(B.resolved) + Len(listeners') = Len(listeners)
       /\ \A playerId \in PlayerIds, elapsed \in Elapsed :
             LET B == waitForControl(Monitor, playerId, waiting[playerId][1],
                                     waiting[playerId][2], elapsed)
             IN
             ( /\ listeners # <<>>
               /\ waiting[playerId] # NoWait
               /\ Recheck(playerId) )
             => Len(B.resolved) + Len(listeners') = Len(listeners)
       /\ \A playerId \in PlayerIds :
             Watch(playerId) => listeners' = Append(listeners, playerId)]_vars

\* a watcher is pending and a flip is about to run two notification rounds:
\* one when it finalizes the player's previous cards, one for the new card
C23_Witness ==
    /\ listeners # <<>>
    /\ \E playerId \in PlayerIds, target \in Rows \X Cols :
          /\ waiting[playerId] = NoWait
          /\ playerId \in DOMAIN players
          /\ players[playerId].previousFirstCard # NoCard
          /\ finishPreviousPlay(Monitor, playerId).resolved # <<>>
          /\ cardExists(Monitor, target[1], target[2])
          /\ ~cards[grid[target[1]][target[2]]].faceUp
          /\ flip(Monitor, playerId, target[1], target[2]).err = NoError

\* C24: any committed mutation of board state wakes all pending watchers: a
\* step that changes the grid or some card's value, face, controller or
\* removal leaves no watcher pending that was pending before it.
C24_MutationWakesWatchers ==
    [][( /\ listeners # <<>>
         /\ BoardState(grid', cards') # BoardState(grid, cards) )
         => listeners' = <<>>]_vars

\* the value the card in cell pos holds, given the grid and the cards
ValueAt(g, cs, pos) == cs[g[pos[1]][pos[2]]].value

\* the cell pos of snapshot value i still holds, live, the value it held
\* when the snapshot m was taken
StillHolds(m, i, pos) ==
    /\ pos \in m.valuePositions[i]
    /\ IsLive(Monitor, pos)
    /\ ValueAt(grid, cards, pos) = m.values[i]

CardAt(pos) == pos[1] * Width + pos[2]

\* C26: when a map applies its results, whatever ran between its snapshot
\* and now, for every value whose transform succeeded every live cell of
\* the snapshot that still holds that value is rewritten to the new value,
\* and the cards of the other cells of that value, removed or rewritten in
\* the interim, keep the value they have.
C26_MapRewritesCellsStillHolding ==
    [][\A playerId \in PlayerIds :
         \A settled \in [1 .. Len(maps[playerId].values) -> Values \cup {rejected}] :
            LET m == maps[playerId] IN
            ( /\ m # NoMap
              /\ maps'[playerId] = NoMap
              /\ cards' = applyReplacements(Monitor, m, settled).cards
              /\ MapSettles(playerId, settled) )
            => \A i \in 1 .. Len(m.values) : \A pos \in m.valuePositions[i] :
                  settled[i] # rejected
                     => IF StillHolds(m, i, pos)
                        THEN ValueAt(grid', cards', pos) = settled[i]
                        ELSE cards'[CardAt(pos)].value = cards[CardAt(pos)].value]_vars

\* a map awaits its transforms while flips have removed cards of its
\* snapshot and another cell of the snapshot still holds its value
C26_Witness ==
    \E playerId \in PlayerIds :
       LET m == maps[playerId] IN
       /\ \E i \in 1 .. Len(m.values) : \E pos \in m.valuePositions[i] :
             cards[CardAt(pos)].removed
       /\ \E i \in 1 .. Len(m.values) : \E pos \in m.valuePositions[i] :
             StillHolds(m, i, pos)

\* some transforms of the outcomes settled were rejected, others fulfilled
PartlyRejected(settled) ==
    /\ \E i \in DOMAIN settled : settled[i] = rejected
    /\ \E i \in DOMAIN settled : settled[i] # rejected

\* the first rejected outcome, in the order of the snapshot's values
FirstRejected(settled) ==
    CHOOSE i \in DOMAIN settled :
       /\ settled[i] = rejected
       /\ \A j \in 1 .. (i - 1) : settled[j] # rejected

\* C27: a map some of whose transforms fail and others succeed fails with
\* the first failure and leaves the successful rewrites committed: the
\* cells still holding a value whose transform succeeded hold the new
\* value, the cards of a value whose transform failed keep their value.
C27_PartialFailureCommitsSuccesses ==
    [][\A playerId \in PlayerIds :
         \A settled \in [1 .. Len(maps[playerId].values) -> Values \cup {rejected}] :
            LET m == maps[playerId] IN
            ( /\ m # NoMap
              /\ maps'[playerId] = NoMap
              /\ PartlyRejected(settled)
              /\ MapSettles(playerId, settled) )
            => /\ mapFinish(Monitor, m, settled).err
                     = TransformError(m.values[FirstRejected(settled)])
               /\ \A i \in 1 .. Len(m.values) : \A pos \in m.valuePositions[i] :
                     IF settled[i] # rejected /\ StillHolds(m, i, pos)
                     THEN ValueAt(grid', cards', pos) = settled[i]
                     ELSE cards'[CardAt(pos)].value = cards[CardAt(pos)].value]_vars

\* a map awaits its transforms and, should the transform of its first value
\* fail and that of its second succeed, will fail and leave a rewritten cell
C27_Witness ==
    \E playerId \in PlayerIds, v \in Values :
       LET m == maps[playerId]
           B == mapFinish(Monitor, m, <<rejected, v>>)
       IN
       /\ Len(m.values) = 2
       /\ B.err = TransformError(m.values[1])
       /\ B.cards # cards

\* the values held by the live cards
LiveValues == {ValueAt(grid, cards, pos) : pos \in {q \in Rows \X Cols : IsLive(Monitor, q)}}

\* C28: map invokes the transform once for every distinct value of the live
\* cards at snapshot time: the values it hands to the transform, one
\* invocation each, are pairwise different and are exactly the values held
\* by live cards, so none is the value of removed cards only; every one of
\* the invocations is made, whatever the outcome of the others.
C28_TransformOncePerLiveValue ==
    [][\A playerId \in PlayerIds :
         MapStart(playerId)
            => LET values == maps'[playerId].values IN
               /\ \A i, j \in 1 .. Len(values) : values[i] = values[j] => i = j
               /\ {values[i] : i \in 1 .. Len(values)} = LiveValues]_vars

\* a map awaits the transforms of a snapshot that lacks the value of a
\* removed card
C28_Witness ==
    \E playerId \in PlayerIds, card \in CardIds :
       LET values == maps[playerId].values IN
       /\ Len(values) > 0
       /\ cards[card].removed
       /\ \A i \in 1 .. Len(values) : values[i] # cards[card].value

\* what map returns when it returns: this.look(playerId) on the board the
\* map leaves
mapReturn(B, m, settled, playerId) == look(mapFinish(B, m, settled), playerId)

\* everything of the board but the values of the cards and the pending
\* watchers: the grid, each card's face, controller and removal, each
\* player's card references
AllButValues(g, cs, ps) ==
    <<g, [card \in DOMAIN cs |-> [cs[card] EXCEPT !.value = "A"]], ps>>

\* C29: a map whose transforms all succeed returns without error, resolves
\* every watcher pending at its completion with that watcher's snapshot of
\* the rewritten board, and returns the caller's snapshot of the rewritten
\* board; and no map changes anything but card values: grid, faces,
\* controllers, removals and the players' card references stay as they were.
C29_MapNotifiesAndChangesOnlyValues ==
    [][\A playerId \in MapCallers :
         \A settled \in [1 .. Len(maps[playerId].values) -> Values \cup {rejected}] :
            LET m == maps[playerId]
                B == mapFinish(Monitor, m, settled)
            IN
            ( /\ m # NoMap
              /\ maps'[playerId] = NoMap
              /\ cards' = applyReplacements(Monitor, m, settled).cards
              /\ MapSettles(playerId, settled) )
            => /\ AllButValues(grid', cards', players')
                     = AllButValues(grid, cards, players)
               /\ (\A i \in 1 .. Len(settled) : settled[i] # rejected)
                     => /\ B.err = NoError
                        /\ listeners' = <<>>
                        /\ ResolvedIds(B) = listeners
                        /\ \A i \in 1 .. Len(B.resolved) :
                              B.resolved[i].snapshot
                                 = look([grid |-> grid', cards |-> cards'],
                                        B.resolved[i].playerId)
                        /\ mapReturn(Monitor, m, settled, playerId)
                              = look([grid |-> grid', cards |-> cards'], playerId)]_vars

\* the first card playerId holds when it calls flip
HeldFirst(playerId) ==
    IF playerId \in DOMAIN players THEN players[playerId].firstCard ELSE NoCard

\* C30: every in-bounds flip finalizes the player's previous pair before it
\* examines the new card: the card is examined on the board finalization
\* leaves, with the player's previous references cleared, whether the flip
\* then succeeds, waits or fails. A flip for a first card ends with no
\* previous references (also when it fails in Rule 1-A, which it does for a
\* cell that finalization has just emptied); a flip for a second card ends
\* with the references of this attempt only (also when it fails in Rule 2-A
\* or 2-B).
C30_FlipFinalizesBeforeExamining ==
    [][\A playerId \in PlayerIds, target \in Rows \X Cols :
         ( /\ waiting[playerId] = NoWait
           /\ maps' = maps
           /\ \A other \in DOMAIN players \ {playerId} :
                 players'[other] = players[other]
           /\ Flip(playerId, target[1], target[2]) )
         => LET F == AfterFinish(playerId)
                B == flip(Monitor, playerId, target[1], target[2])
            IN
            /\ F.players[playerId].previousFirstCard = NoCard
            /\ F.players[playerId].previousSecondCard = NoCard
            /\ HeldFirst(playerId) = NoCard
                  => /\ players'[playerId].previousFirstCard = NoCard
                     /\ players'[playerId].previousSecondCard = NoCard
                     /\ (F.err = NoError /\ ~cardExists(F, target[1], target[2]))
                           => /\ B.err = ErrNoCard
                              /\ players'[playerId].firstCard = NoCard
            /\ HeldFirst(playerId) # NoCard
                  => /\ players'[playerId].previousFirstCard = HeldFirst(playerId)
                     /\ players'[playerId].previousSecondCard
                           = IF B.err \in {ErrNoSecondCard, ErrSecondControlled}
                             THEN NoCard ELSE grid[target[1]][target[2]]]_vars

\* a player with a previous card on record and no first card is about to
\* flip an empty cell and fail in Rule 1-A
C30_Witness ==
    \E playerId \in DOMAIN players, target \in Rows \X Cols :
       /\ waiting[playerId] = NoWait
       /\ players[playerId].firstCard = NoCard
       /\ players[playerId].previousFirstCard # NoCard
       /\ flip(Monitor, playerId, target[1], target[2]).err = ErrNoCard

\* C31: the snapshot a watcher receives shows the board as the flip that
\* woke it leaves it: it equals look for that watcher on the state after the
\* flip, never a state the flip passed through.
C31_WatcherSeesCompletedFlip ==
    [][\A playerId \in PlayerIds, target \in Rows \X Cols :
         LET B == flip(Monitor, playerId, target[1], target[2]) IN
         ( /\ listeners # <<>>
           /\ listeners' = <<>>
           /\ waiting[playerId] = NoWait
           /\ \A other \in DOMAIN players \ {playerId} :
                 players'[other] = players[other]
           /\ Flip(playerId, target[1], target[2]) )
         => \A i \in 1 .. Len(B.resolved) :
               B.resolved[i].snapshot
                  = look([grid |-> grid', cards |-> cards'],
                         B.resolved[i].playerId)]_vars

\* C32: the finalization of a previous pair resolves the pending watchers if
\* and only if it changed the grid or a card's face, controller or removal:
\* in every in-bounds flip made while watchers are pending, finalization
\* resolves a watcher exactly when the board it leaves differs from the
\* board it found.
C32_FinalizationNotifiesIffChanged ==
    [][\A playerId \in PlayerIds, target \in Rows \X Cols :
         LET F == AfterFinish(playerId) IN
         ( /\ listeners # <<>>
           /\ waiting[playerId] = NoWait
           /\ \A other \in DOMAIN players \ {playerId} :
                 players'[other] = players[other]
           /\ Flip(playerId, target[1], target[2]) )
         => ( F.resolved # <<>>
                <=> BoardState(F.grid, F.cards) # BoardState(grid, cards) )]_vars

\* playerId's flip sleeps in Rule 1-D on the card at target, and the card
\* is on the grid with no controller
WaitsForFreeCard(playerId, target) ==
    /\ playerId \in DOMAIN waiting
    /\ waiting[playerId] = target
    /\ cardExists(Monitor, target[1], target[2])
    /\ cards[grid[target[1]][target[2]]].controller = null

\* playerId's flip on the card at target is over and the card, face up, is
\* the player's current first card and under its control
ClaimedFirst(playerId, target) ==
    /\ playerId \in DOMAIN waiting
    /\ waiting[playerId] = NoWait
    /\ playerId \in DOMAIN players
    /\ cardExists(Monitor, target[1], target[2])
    /\ players[playerId].firstCard = grid[target[1]][target[2]]
    /\ cards[grid[target[1]][target[2]]].controller = playerId
    /\ cards[grid[target[1]][target[2]]].faceUp

\* Flip(playerId, row, column) can take a step: the player has no flip
\* asleep, and what its flip leaves behind is a next state
FlipCanRun(playerId, row, column) ==
    /\ waiting[playerId] = NoWait
    /\ \E B \in {flip(Monitor, playerId, row, column)} :
          ENABLED ( /\ Commit(B)
                    /\ waiting' = IF B.wait
                                  THEN [waiting EXCEPT ![playerId] = <<row, column>>]
                                  ELSE waiting
                    /\ UNCHANGED maps )

\* C33: a flip asleep in Rule 1-D blocks no other operation: while it
\* sleeps, every other player's flip, look and watch and a map can run; and
\* once the card it waits for is on the grid with no controller, the flip
\* ends, at its next re-check without an error, with the sleeper controlling
\* the card as its current first card, unless the card is taken or removed
\* first.
C33_WaiterBlocksNobodyAndClaimsFreeCard ==
    /\ [](\A playerId \in DOMAIN waiting :
            waiting[playerId] # NoWait
               => /\ \A other \in DOMAIN waiting \ {playerId} :
                        waiting[other] = NoWait
                           => \A target \in Rows \X Cols :
                                 FlipCanRun(other, target[1], target[2])
                  /\ \A other \in PlayerIds \ {playerId} :
                        ENABLED Look(other) /\ ENABLED Watch(other)
                  /\ \A caller \in MapCallers :
                        ENABLED (MapStart(caller) \/ MapFinish(caller)))
    /\ [][\A playerId \in DOMAIN waiting, target \in Rows \X Cols :
            ( /\ WaitsForFreeCard(playerId, target)
              /\ Recheck(playerId) )
            => /\ waitForControl(Monitor, playerId, target[1], target[2], 0).err
                     = NoError
               /\ ClaimedFirst(playerId, target)']_vars
    /\ \A playerId \in PlayerIds, target \in Rows \X Cols :
          WaitsForFreeCard(playerId, target)
             ~> ( \/ ClaimedFirst(playerId, target)
                  \/ ~cardExists(Monitor, target[1], target[2])
                  \/ cards[grid[target[1]][target[2]]].controller
                        \notin {null, playerId} )

\* playerId's flip sleeps on the card at target, which lies on the grid
\* face down with no controller
WaitsForTurnedDownCard(playerId, target) ==
    /\ WaitsForFreeCard(playerId, target)
    /\ ~cards[grid[target[1]][target[2]]].faceUp

\* C34: a Rule 1-D waiter that finds the card uncontrolled and turned face
\* down in the interim turns it face up, takes control of it and records it
\* as its current first card: grid, cards and players are as Rule 1-B
\* leaves them for that player and card, and the flip is over.
C34_WaiterTurnsUpCardTurnedDown ==
    [][\A playerId \in PlayerIds, target \in Rows \X Cols :
         ( /\ WaitsForTurnedDownCard(playerId, target)
           /\ Recheck(playerId) )
         => LET card == grid[target[1]][target[2]] IN
            /\ cards'[card].faceUp
            /\ cards'[card].controller = playerId
            /\ players'[playerId].firstCard = card
            /\ waiting'[playerId] = NoWait
            /\ grid' = flipFaceDown(Monitor, playerId, card).grid
            /\ cards' = flipFaceDown(Monitor, playerId, card).cards
            /\ players' = flipFaceDown(Monitor, playerId, card).players]_vars

\* a flip asleep on a card that its holder has given up and turned face down
C34_Witness ==
    \E playerId \in PlayerIds, target \in Rows \X Cols :
       WaitsForTurnedDownCard(playerId, target)

\* C35: a player's attempt goes from no attempt to holding a first card, to a
\* pair awaiting finalization, and back: every in-bounds flip by a player who
\* holds a first card ends with that player holding no first card, whether
\* the flip returns or throws, and no player ever has a current second card.
C35_SecondFlipEndsAttempt ==
    /\ [](\A playerId \in DOMAIN players : players[playerId].secondCard = NoCard)
    /\ [][\A playerId \in PlayerIds, target \in Rows \X Cols :
            ( /\ HeldFirst(playerId) # NoCard
              /\ waiting[playerId] = NoWait
              /\ maps' = maps
              /\ \A other \in DOMAIN players \ {playerId} :
                    players'[other] = players[other]
              /\ Flip(playerId, target[1], target[2]) )
            => /\ players'[playerId].firstCard = NoCard
               /\ players'[playerId].previousFirstCard = HeldFirst(playerId)]_vars

\* a player holding a first card is about to flip a card that another player
\* controls, which fails in Rule 2-B
C35_Witness ==
    \E playerId \in DOMAIN players, target \in Rows \X Cols :
       /\ waiting[playerId] = NoWait
       /\ players[playerId].firstCard # NoCard
       /\ cardExists(Monitor, target[1], target[2])
       /\ cards[grid[target[1]][target[2]]].controller \notin {null, playerId}
       /\ flip(Monitor, playerId, target[1], target[2]).err = ErrSecondControlled

\* the cards playerId has on record: its first card and its previous pair
CardsOnRecord(playerId) ==
    IF playerId \in DOMAIN players
    THEN {players[playerId].firstCard, players[playerId].previousFirstCard,
          players[playerId].previousSecondCard} \ {NoCard}
    ELSE {}

\* C36: control is always accounted for: a card whose controller is p is p's
\* current first card or a card of p's previous pair, so a player with no
\* first card and no previous pair controls no card.
C36_ControlAccountedFor ==
    \A card \in CardIds :
       cards[card].controller # null
          => card \in CardsOnRecord(cards[card].controller)

\* the cards whose controller is playerId
Controlled(playerId) == {card \in CardIds : cards[card].controller = playerId}

\* the player whose control of the card the sleeping flip of playerId waits
\* for to end; null when the card is free or gone
WaitsFor(playerId) ==
    LET target == waiting[playerId] IN
    IF target = NoWait \/ ~cardExists(Monitor, target[1], target[2]) THEN null
    ELSE cards[grid[target[1]][target[2]]].controller

HeldByOthers(playerId) ==
    {card \in CardIds : /\ cards[card].controller \notin {null, playerId}
                        /\ ~cards[card].removed
                        /\ OnGrid(Monitor, card)}

\* C38: a card that one player controls is not removed and does not lose its
\* controller through a flip of another player, nor through a map: every
\* step of playerId's flip, and every step of a map, leaves the cards that
\* other players control on the grid with the same controller.
C38_OnlyControllerReleases ==
    [][/\ \A playerId \in PlayerIds :
            ( /\ maps' = maps
              /\ \/ Recheck(playerId)
                 \/ \E target \in Rows \X Cols :
                       Flip(playerId, target[1], target[2]) )
            => \A card \in HeldByOthers(playerId) :
                  /\ ~cards'[card].removed
                  /\ grid'[cards[card].row][cards[card].col] = card
                  /\ cards'[card].controller = cards[card].controller
       /\ maps' # maps
            => \A card \in HeldByOthers(null) :
                  /\ ~cards'[card].removed
                  /\ grid'[cards[card].row][cards[card].col] = card
                  /\ cards'[card].controller = cards[card].controller]_vars

\* the card lies on the grid face up with no controller
LeftFaceUp(card) ==
    /\ ~cards[card].removed
    /\ OnGrid(Monitor, card)
    /\ cards[card].faceUp
    /\ cards[card].controller = null

\* the card is one of the previous pair of playerId
InPreviousPair(playerId, card) ==
    /\ playerId \in DOMAIN players
    /\ card \in {players[playerId].previousFirstCard,
                 players[playerId].previousSecondCard}

\* C39: no card is stranded face up: with flips only, every card on the grid
\* that is face up with no controller is in the previous pair of the player
\* its prevControlledBy names, and the next in-bounds flip of that player
\* leaves it face down or, if the flip is for that card, controlled by the
\* player.
C39_NoCardStrandedFaceUp ==
    /\ [](\A card \in CardIds :
            LeftFaceUp(card)
               => /\ cards[card].prevControlledBy # null
                  /\ InPreviousPair(cards[card].prevControlledBy, card))
    /\ [][\A playerId \in ThreePlayers, target \in Rows \X Cols :
            ( /\ \E card \in CardIds :
                    LeftFaceUp(card) /\ cards[card].prevControlledBy = playerId
              /\ waiting[playerId] = NoWait
              /\ Flip(playerId, target[1], target[2]) )
            => \A card \in CardIds :
                  (LeftFaceUp(card) /\ cards[card].prevControlledBy = playerId)
                     => /\ ~cards'[card].removed
                        /\ \/ ~cards'[card].faceUp
                           \/ /\ card = grid[target[1]][target[2]]
                              /\ cards'[card].controller = playerId]_vars

\* a card given up by one player, claimed and given up again by another, is
\* face up with no controller while both players have it in their previous
\* pairs
C39_Witness ==
    \E card \in CardIds, playerId \in DOMAIN players :
       /\ LeftFaceUp(card)
       /\ cards[card].prevControlledBy \notin {null, playerId}
       /\ InPreviousPair(playerId, card)
       /\ InPreviousPair(cards[card].prevControlledBy, card)

====
